---------------------------- MODULE Spec2Model ----------------------------
(***************************************************************************)
(* A model of backend/utils/file_parser.py: the DOCX origin classifier,   *)
(* the extraction quality check, the PyMuPDF column detector and the two   *)
(* reading-order reconstructions, the document-level layout decision and   *)
(* the dispatcher extract_text_from_file.                                  *)
(*                                                                         *)
(* Numbers.  The Python code computes on floats.  The model keeps every    *)
(* coordinate as an integer number of 1/32 units, so that 1.0 is 32; block *)
(* coordinates are even (multiples of 1/16), which makes every midpoint    *)
(* (a + b) / 2.0 an integer too.  All these values are exact in binary     *)
(* floating point, so the comparisons and round(v, 1) of the code are the  *)
(* exact rational ones.  A ratio test n / m >= 0.34 is written             *)
(* 100 * n >= 34 * m (the two agree for every n <= m < 400).               *)
(***************************************************************************)
EXTENDS Integers, Sequences, FiniteSets, TLC

(* ------------------------------ bounds -------------------------------- *)

\* chunks of lines a text of the quality specification is built from
MaxChunks == 3
\* groups of paragraphs a DOCX of the origin specification is built from
MaxParaAdds == 2
\* tables of a DOCX of the origin specification
MaxTables == 3
\* blocks added to a base layout to make a page of the page specification
MaxExtra == 2
\* pages of a PDF of the layout specification
MaxPages == 4
\* pages of a PDF file of the extraction specification
MaxFilePages == 2

VARIABLES
    qText,      \* SpecQuality: the text handed to _looks_bad_text
    qChunks,    \* SpecQuality: how many chunks qText was built from
    qOut,       \* SpecQuality: <<>>, or <<the verdict of _looks_bad_text(qText)>>
    docx,       \* SpecOrigin: the DOCX file handed to detect_docx_origin
    oAdds,      \* SpecOrigin: how many groups of paragraphs docx was built from
    originOut,  \* SpecOrigin: <<>>, or <<the label detect_docx_origin(docx) returns>>
    page,       \* SpecPage: the fitz.Page: its rect.width and get_text("blocks")
    pgExtra,    \* SpecPage: how many blocks were added to the base layout
    pgOp,       \* SpecPage: the function last applied to the page, or "none"
    pgOut,      \* SpecPage: what it returned
    pgLists,    \* SpecPage: its sorted block lists when it returned
    pdf,        \* SpecLayout: the pages of the file at pdf_path
    lpc,        \* SpecLayout: where read_pdf_layout_aware is
    docOpen,    \* SpecLayout: whether the fitz.Document is open
    two_col_pages,  \* SpecLayout: the local variable two_col_pages
    total_pages,    \* SpecLayout: the local variable total_pages
    mode,       \* SpecLayout: the reconstruction called, or "none"
    recon,      \* SpecLayout: for each page it has gone through, that function
    out_pages,  \* SpecLayout: the page texts it has collected (out, out_pages)
    lResult,    \* SpecLayout: what the call returned or raised
    eFile,      \* SpecExtract: the file at file_path, its suffix and content
    epc,        \* SpecExtract: where extract_text_from_file is
    ext,        \* SpecExtract: the local variable ext, "?" before it is set
    origin,     \* SpecExtract: the local variable origin, or "none"
    eText,      \* SpecExtract: the text a reader returned, <<>> before
    calls,      \* SpecExtract: the functions called so far, in order
    warned,     \* SpecExtract: whether logger.warning was called
    raised,     \* SpecExtract: the exception raised inside the try, or <<>>
    outcome     \* SpecExtract: what the caller gets

qVars == <<qText, qChunks, qOut>>
oVars == <<docx, oAdds, originOut>>
pVars == <<page, pgExtra, pgOp, pgOut, pgLists>>
lVars == <<pdf, lpc, docOpen, two_col_pages, total_pages, mode, recon,
           out_pages, lResult>>

eVars == <<eFile, epc, ext, origin, eText, calls, warned, raised, outcome>>

vars == <<qText, qChunks, qOut, docx, oAdds, originOut,
          page, pgExtra, pgOp, pgOut, pgLists,
          pdf, lpc, docOpen, two_col_pages, total_pages, mode, recon,
          out_pages, lResult,
          eFile, epc, ext, origin, eText, calls, warned, raised, outcome>>

\* the variables of the other specifications, which a specification leaves alone
QIdle == qText = <<>> /\ qChunks = 0 /\ qOut = <<>>
OIdle == docx = <<>> /\ oAdds = 0 /\ originOut = <<>>
PIdle == page = <<>> /\ pgExtra = 0 /\ pgOp = "none" /\ pgOut = <<>> /\ pgLists = <<>>
LIdle == /\ pdf = <<>> /\ lpc = "idle" /\ docOpen = FALSE
         /\ two_col_pages = 0 /\ total_pages = 0 /\ mode = "none"
         /\ recon = <<>> /\ out_pages = <<>> /\ lResult = [kind |-> "none"]
EIdle == /\ eFile = <<>> /\ epc = "idle" /\ ext = "?" /\ origin = "none"
         /\ eText = <<>> /\ calls = <<>> /\ warned = FALSE /\ raised = <<>>
         /\ outcome = [kind |-> "none"]

(* ------------------------------ helpers ------------------------------- *)

\* the recursions over a sequence halve it, so that their depth stays small
RECURSIVE SumRange(_, _, _)
SumRange(s, lo, hi) ==
    IF lo > hi THEN 0
    ELSE IF lo = hi THEN s[lo]
    ELSE LET mid == (lo + hi) \div 2
         IN SumRange(s, lo, mid) + SumRange(s, mid + 1, hi)

SumSeq(s) == SumRange(s, 1, Len(s))

RECURSIVE Repeat(_, _)
Repeat(s, n) == IF n = 0 THEN <<>> ELSE s \o Repeat(s, n - 1)

(***************************************************************************)
(* Text.  A Python str is kept run-length encoded: a sequence of runs      *)
(* [k, n], n >= 1 characters of kind "w" (not whitespace), "s" (a blank)   *)
(* or "n" (a line feed).  len, str.strip, str.splitlines and str.split are *)
(* computed on the runs as Python computes them on the characters.         *)
(***************************************************************************)
W(n) == [k |-> "w", n |-> n]
S(n) == [k |-> "s", n |-> n]
NL(n) == [k |-> "n", n |-> n]

\* len(text)
StrLen(t) == SumSeq([i \in 1..Len(t) |-> t[i].n])

\* the first (dir = 1) or last (dir = -1) index in lo..hi of a character
\* that is not whitespace, 0 when there is none
RECURSIVE EdgeNonWs(_, _, _, _)
EdgeNonWs(t, lo, hi, dir) ==
    IF lo > hi THEN 0
    ELSE IF lo = hi THEN (IF t[lo].k = "w" THEN lo ELSE 0)
    ELSE LET mid == (lo + hi) \div 2
             near == IF dir = 1 THEN EdgeNonWs(t, lo, mid, dir)
                     ELSE EdgeNonWs(t, mid + 1, hi, dir)
         IN IF near # 0 THEN near
            ELSE IF dir = 1 THEN EdgeNonWs(t, mid + 1, hi, dir)
            ELSE EdgeNonWs(t, lo, mid, dir)

\* text.strip()
Strip(t) ==
    LET first == EdgeNonWs(t, 1, Len(t), 1)
    IN IF first = 0 THEN <<>>
       ELSE SubSeq(t, first, EdgeNonWs(t, 1, Len(t), -1))

\* text.split("\n") of the runs lo..hi: a line feed ends a piece and starts
\* the next one
RECURSIVE SplitRange(_, _, _)
SplitRange(t, lo, hi) ==
    IF lo > hi THEN <<<<>>>>
    ELSE IF lo = hi
         THEN (IF t[lo].k = "n" THEN [i \in 1..(t[lo].n + 1) |-> <<>>]
               ELSE <<<<t[lo]>>>>)
    ELSE LET mid == (lo + hi) \div 2
             l == SplitRange(t, lo, mid)
             r == SplitRange(t, mid + 1, hi)
         IN SubSeq(l, 1, Len(l) - 1) \o <<l[Len(l)] \o Head(r)>> \o Tail(r)

\* text.splitlines(): every line feed ends a line; what follows the last
\* line feed is a line only when it is not empty
SplitLines(t) ==
    LET pieces == SplitRange(t, 1, Len(t))
    IN IF pieces[Len(pieces)] = <<>> THEN SubSeq(pieces, 1, Len(pieces) - 1)
       ELSE pieces

\* len(ln.split()): the maximal runs of characters that are not whitespace
WordCount(ln) ==
    Cardinality({i \in 1..Len(ln) :
                    ln[i].k = "w" /\ (i = 1 \/ ln[i - 1].k # "w")})

\* lines = [ln.strip() for ln in text.splitlines() if ln.strip()]
StrippedLines(t) ==
    LET NonEmpty(ln) == Strip(ln) # <<>>
        kept == SelectSeq(SplitLines(t), NonEmpty)
    IN [i \in 1..Len(kept) |-> Strip(kept[i])]

(* ------------------------- the quality check -------------------------- *)

MinTextLen == 200
MinLines == 5
ShortLineWords == 2
\* 0.55, in hundredths
MaxShortPct == 55

\* the same check with the ratio test written >= instead of >
looks_bad_text_ge(text) ==
    IF text = <<>> \/ StrLen(Strip(text)) < MinTextLen THEN TRUE
    ELSE LET lines == StrippedLines(text)
             short == Cardinality({i \in 1..Len(lines) :
                                      WordCount(lines[i]) <= ShortLineWords})
         IN IF Len(lines) < MinLines THEN TRUE
            ELSE 100 * short >= MaxShortPct * Len(lines)

_looks_bad_text(text) ==
    IF text = <<>> \/ StrLen(Strip(text)) < MinTextLen THEN TRUE
    ELSE LET lines == StrippedLines(text)
             short == Cardinality({i \in 1..Len(lines) :
                                      WordCount(lines[i]) <= ShortLineWords})
         IN IF Len(lines) < MinLines THEN TRUE
            ELSE IF 100 * short > MaxShortPct * Len(lines) THEN TRUE
            ELSE FALSE

(***************************************************************************)
(* SpecQuality: a text is put together from chunks, each a line repeated   *)
(* some number of times, and _looks_bad_text is applied to it.             *)
(***************************************************************************)
\* one word; two words; three words (48 characters); blanks only
LineTemplates ==
    { <<W(3)>>,
      <<W(2), S(1), W(1)>>,
      <<W(16), S(1), W(16), S(1), W(14)>>,
      <<S(2)>> }

RepChoices == {1, 3, 4, 9, 11}

QInit ==
    /\ qText = <<>>
    /\ qChunks = 0
    /\ qOut = <<>>
    /\ OIdle /\ PIdle /\ LIdle /\ EIdle

\* the caller has a longer text: r more lines, each the template and "\n"
QAppendLines ==
    /\ qChunks < MaxChunks
    /\ \E tpl \in LineTemplates, r \in RepChoices :
          qText' = qText \o Repeat(tpl \o <<NL(1)>>, r)
    /\ qChunks' = qChunks + 1
    /\ qOut' = <<>>
    /\ UNCHANGED <<oVars, pVars, lVars, eVars>>

QAssess ==
    /\ qOut = <<>>
    /\ qOut' = <<_looks_bad_text(qText)>>
    /\ UNCHANGED <<qText, qChunks>>
    /\ UNCHANGED <<oVars, pVars, lVars, eVars>>

QNext == QAppendLines \/ QAssess

SpecQuality == QInit /\ [][QNext]_vars

\* the quantities the quality rule is stated in
TrimmedLength(t) == StrLen(Strip(t))
NonEmptyLines(t) ==
    LET ls == SplitLines(t) IN Cardinality({ i \in 1..Len(ls) : Strip(ls[i]) # <<>> })
ShortLines(t) ==
    LET ls == SplitLines(t)
    IN Cardinality({ i \in 1..Len(ls) : Strip(ls[i]) # <<>> /\ WordCount(ls[i]) <= 2 })

\* C10: the quality check rejects a text exactly when its trimmed length is
\* below 200, or it has fewer than 5 non-empty lines, or strictly more than
\* 55% of its non-empty lines have at most 2 words.
C10_QualityRule ==
    qOut # <<>> =>
        (qOut[1] <=>
            \/ TrimmedLength(qText) < 200
            \/ NonEmptyLines(qText) < 5
            \/ 100 * ShortLines(qText) > 55 * NonEmptyLines(qText))

\* a text of 20 non-empty lines, exactly 55% of them short, long enough:
\* accepted, since 55% is not more than 55%
C10_Witness ==
    /\ qOut = <<FALSE>>
    /\ NonEmptyLines(qText) = 20
    /\ ShortLines(qText) = 11

(* ----------------------- the origin classifier ------------------------ *)

(***************************************************************************)
(* A DOCX file.  python-docx gives doc.paragraphs and doc.tables; the      *)
(* classifier needs of a paragraph its number of words, its last           *)
(* character, the phrase it holds (for the converter markers) and the font *)
(* names of its runs, so a paragraph is such a record and doc.paragraphs   *)
(* is kept as a bag: how many paragraphs of each kind there are.  The part *)
(* word/document.xml is the serialization of the same body: one <w:tbl>    *)
(* element, with its <w:tblPr> and <w:tblGrid> children, per table, one    *)
(* <w:br/> per line break, and the marker elements the file holds.         *)
(***************************************************************************)
ParaKinds ==
    { [words |-> 2, last |-> "a", phrase |-> "", fonts |-> <<"Calibri">>],
      [words |-> 3, last |-> "F", phrase |-> "Converted from PDF", fonts |-> <<"None">>],
      [words |-> 4, last |-> ":", phrase |-> "", fonts |-> <<"None">>],
      [words |-> 8, last |-> ".", phrase |-> "", fonts |-> <<"Times New Roman">>],
      [words |-> 0, last |-> " ", phrase |-> "",
       fonts |-> <<"Times New Roman", "Calibri">>] }

ParaChunks == {1, 9, 11, 20, 31}

MarkerTags ==
    { "<w:lastRenderedPageBreak/>", "<w:br w:type=\"page\"/>",
      "<w:txbxContent>", "<w:framePr w:hAnchor=\"page\"/>" }

XmlTags == MarkerTags \cup {"<w:tbl>", "<w:tblPr>", "<w:tblGrid>", "<w:br/>"}

BreakChoices == {0, 19, 20}

\* the number of occurrences of the string needle in the tag
Occurrences(tag, needle) ==
    CASE needle = "lastRenderedPageBreak" ->
            IF tag = "<w:lastRenderedPageBreak/>" THEN 1 ELSE 0
      [] needle = "w:type=\"page\"" ->
            IF tag = "<w:br w:type=\"page\"/>" THEN 1 ELSE 0
      [] needle = "txbxContent" -> IF tag = "<w:txbxContent>" THEN 1 ELSE 0
      [] needle = "framePr" ->
            IF tag = "<w:framePr w:hAnchor=\"page\"/>" THEN 1 ELSE 0
      [] needle = "posH" -> 0
      [] needle = "posV" -> 0
      [] needle = "<w:tbl" ->
            IF tag \in {"<w:tbl>", "<w:tblPr>", "<w:tblGrid>"} THEN 1 ELSE 0
      [] needle = "<w:br" ->
            IF tag \in {"<w:br/>", "<w:br w:type=\"page\"/>"} THEN 1 ELSE 0

\* z.read("word/document.xml"): how often each element occurs in the part
DocXml(d) ==
    [tag \in XmlTags |->
        IF tag \in {"<w:tbl>", "<w:tblPr>", "<w:tblGrid>"} THEN d.tables
        ELSE IF tag = "<w:br/>" THEN d.lineBreaks
        ELSE IF tag \in d.markers THEN 1 ELSE 0]

RECURSIVE SumOver(_, _)
SumOver(set, f) ==
    IF set = {} THEN 0
    ELSE LET x == CHOOSE y \in set : TRUE
         IN f[x] + SumOver(set \ {x}, f)

\* doc_xml.count(needle)
XmlCount(doc_xml, needle) ==
    SumOver(XmlTags, [tag \in XmlTags |-> doc_xml[tag] * Occurrences(tag, needle)])

\* needle in doc_xml
XmlHas(doc_xml, needle) == XmlCount(doc_xml, needle) > 0

\* str.lower() of a paragraph's phrase
Lower(phrase) ==
    IF phrase = "Converted from PDF" THEN "converted from pdf" ELSE phrase

ConverterMarkers == {"adobe", "acrobat", "converted from pdf", "evaluation warning"}

\* the paragraphs with p.text.strip() not empty
NonEmptyKinds == { k \in ParaKinds : k.words > 0 }

TerminalPunct == {".", "!", "?", ":", ";", ")"}

MinXmlTables == 3
MinLineBreaks == 20
\* 0.55 and 0.40, in hundredths
ShortRatioHigh == 55
ShortRatioLow == 40
ShortParaWords == 3
AvgWordsBelow == 6
ManyParasAvg == 60
\* 0.70, in hundredths
NoPunctRatio == 70
ManyParasPunct == 50
MinTables == 3
PdfScore == 4
LegacyRuns == 10

\* xml_score, 0 when the part cannot be read (except Exception: pass)
xml_score(d) ==
    IF ~d.hasMainPart THEN 0
    ELSE LET doc_xml == DocXml(d)
         IN (IF XmlHas(doc_xml, "lastRenderedPageBreak")
                \/ XmlHas(doc_xml, "w:type=\"page\"") THEN 2 ELSE 0)
            + (IF XmlHas(doc_xml, "txbxContent") \/ XmlHas(doc_xml, "framePr")
                  \/ XmlHas(doc_xml, "posH") \/ XmlHas(doc_xml, "posV")
               THEN 2 ELSE 0)
            + (IF XmlCount(doc_xml, "<w:tbl") >= MinXmlTables THEN 1 ELSE 0)
            + (IF XmlCount(doc_xml, "<w:br") >= MinLineBreaks THEN 1 ELSE 0)

\* the runs r of doc.paragraphs with "Times New Roman" in str(r.font.name)
times_new_roman_hits(d) ==
    SumOver(ParaKinds,
            [k \in ParaKinds |->
                d.paras[k] * Cardinality({i \in 1..Len(k.fonts) :
                                             k.fonts[i] = "Times New Roman"})])

origin_score(d) ==
    LET total_paras == SumOver(NonEmptyKinds, d.paras)
        words       == SumOver(NonEmptyKinds,
                               [k \in ParaKinds |-> d.paras[k] * k.words])
        short_lines == SumOver({k \in NonEmptyKinds : k.words <= ShortParaWords},
                               d.paras)
        no_punct    == SumOver({k \in NonEmptyKinds : k.last \notin TerminalPunct},
                               d.paras)
        has_marker  == \E k \in NonEmptyKinds :
                          d.paras[k] > 0 /\ Lower(k.phrase) \in ConverterMarkers
    IN  xml_score(d)
        + (IF 100 * short_lines >= ShortRatioHigh * total_paras THEN 2
           ELSE IF 100 * short_lines >= ShortRatioLow * total_paras THEN 1 ELSE 0)
        + (IF words < AvgWordsBelow * total_paras /\ total_paras > ManyParasAvg
           THEN 1 ELSE 0)
        + (IF 100 * no_punct >= NoPunctRatio * total_paras
              /\ total_paras > ManyParasPunct THEN 1 ELSE 0)
        + (IF d.tables >= MinTables THEN 1 ELSE 0)
        + (IF has_marker THEN 1 ELSE 0)

detect_docx_origin(d) ==
    IF SumOver(NonEmptyKinds, d.paras) = 0 THEN "ORIGINAL_DOCX"
    ELSE IF origin_score(d) >= PdfScore THEN "PDF_CONVERTED_DOCX"
    ELSE IF times_new_roman_hits(d) >= LegacyRuns THEN "DOC_TO_DOCX"
    ELSE "ORIGINAL_DOCX"

(***************************************************************************)
(* SpecOrigin: a DOCX is put together (its marker elements, line breaks    *)
(* and main part are given from the start, paragraphs and tables are       *)
(* added) and detect_docx_origin is applied to it.                         *)
(***************************************************************************)
OInit ==
    /\ \E m \in SUBSET MarkerTags, b \in BreakChoices, h \in BOOLEAN :
          docx = [paras |-> [k \in ParaKinds |-> 0], tables |-> 0,
                  markers |-> m, lineBreaks |-> b, hasMainPart |-> h]
    /\ oAdds = 0
    /\ originOut = <<>>
    /\ QIdle /\ PIdle /\ LIdle /\ EIdle

OAddParagraphs ==
    /\ oAdds < MaxParaAdds
    /\ \E k \in ParaKinds, n \in ParaChunks :
          docx' = [docx EXCEPT !.paras[k] = @ + n]
    /\ oAdds' = oAdds + 1
    /\ originOut' = <<>>
    /\ UNCHANGED <<qVars, pVars, lVars, eVars>>

OAddTable ==
    /\ docx.tables < MaxTables
    /\ docx' = [docx EXCEPT !.tables = @ + 1]
    /\ originOut' = <<>>
    /\ UNCHANGED <<oAdds>>
    /\ UNCHANGED <<qVars, pVars, lVars, eVars>>

OClassify ==
    /\ originOut = <<>>
    /\ originOut' = <<detect_docx_origin(docx)>>
    /\ UNCHANGED <<docx, oAdds>>
    /\ UNCHANGED <<qVars, pVars, lVars, eVars>>

ONext == OAddParagraphs \/ OAddTable \/ OClassify

SpecOrigin == OInit /\ [][ONext]_vars

\* the classification as the claim C9 states it, from the numbers of the
\* document: xmlTables is the number of tables in word/document.xml
ClaimedScore(d, xmlTables) ==
    LET paras  == SumOver(NonEmptyKinds, d.paras)
        short  == SumOver({k \in NonEmptyKinds : k.words <= 3}, d.paras)
        words  == SumOver(NonEmptyKinds, [k \in ParaKinds |-> d.paras[k] * k.words])
        open   == SumOver({k \in NonEmptyKinds : k.last \notin TerminalPunct}, d.paras)
        breaks == d.lineBreaks + (IF "<w:br w:type=\"page\"/>" \in d.markers THEN 1 ELSE 0)
        inXml(tags) == d.hasMainPart /\ d.markers \cap tags # {}
    IN  (IF inXml({"<w:lastRenderedPageBreak/>", "<w:br w:type=\"page\"/>"}) THEN 2 ELSE 0)
        + (IF inXml({"<w:txbxContent>", "<w:framePr w:hAnchor=\"page\"/>"}) THEN 2 ELSE 0)
        + (IF d.hasMainPart /\ xmlTables >= 3 THEN 1 ELSE 0)
        + (IF d.hasMainPart /\ breaks >= 20 THEN 1 ELSE 0)
        + (IF 100 * short >= 55 * paras THEN 2
           ELSE IF 100 * short >= 40 * paras THEN 1 ELSE 0)
        + (IF words < 6 * paras /\ paras > 60 THEN 1 ELSE 0)
        + (IF 100 * open >= 70 * paras /\ paras > 50 THEN 1 ELSE 0)
        + (IF d.tables >= 3 THEN 1 ELSE 0)
        + (IF d.paras[[words |-> 3, last |-> "F", phrase |-> "Converted from PDF",
                       fonts |-> <<"None">>]] > 0 THEN 1 ELSE 0)

ClaimedOrigin(d, xmlTables) ==
    IF SumOver(NonEmptyKinds, d.paras) = 0 THEN "ORIGINAL_DOCX"
    ELSE IF ClaimedScore(d, xmlTables) >= 4 THEN "PDF_CONVERTED_DOCX"
    ELSE IF times_new_roman_hits(d) >= 10 THEN "DOC_TO_DOCX"
    ELSE "ORIGINAL_DOCX"

\* C9: the origin classifier returns ORIGINAL for a document with no
\* non-empty paragraph; otherwise PDF_CONVERTED when the additive score
\* (page-break marker 2, text-box marker 2, at least 3 XML tables 1, at least
\* 20 line breaks 1, short-paragraph ratio 2 or 1, low average words 1, no
\* terminal punctuation 1, at least 3 tables 1, converter marker 1) is at
\* least 4; otherwise LEGACY_CONVERTED with at least 10 Times New Roman runs;
\* otherwise ORIGINAL.
C9_OriginRule ==
    originOut # <<>> => originOut[1] = ClaimedOrigin(docx, docx.tables)

(* ------------------- PDF layout-aware extraction ---------------------- *)

(***************************************************************************)
(* A block of page.get_text("blocks") is the record                        *)
(* [x0, y0, x1, y1, text, block_no]; a page is [width, blocks].            *)
(* Coordinates are in 1/32 units (see the head of the module); a value     *)
(* returned as None by the code is <<>> here, a returned number v is <<v>>. *)
(***************************************************************************)
\* v units, in 1/32 units
U(v) == 32 * v

\* the nearest integer to num / den, a tie going to the even one: round()
RoundHalfEven(num, den) ==
    LET q == num \div den
        r == num % den
    IN IF 2 * r < den THEN q
       ELSE IF 2 * r > den THEN q + 1
       ELSE IF q % 2 = 0 THEN q ELSE q + 1

\* round(float(v), 1), in tenths
Round1(v) == RoundHalfEven(10 * v, 32)

\* sorted(): the stable sort of seq, where less[i][j] says that seq[i] is
\* strictly before seq[j] in the order of the keys
StableSort(seq, less) ==
    LET n == Len(seq)
        rank == [i \in 1..n |->
                    Cardinality({j \in 1..n :
                                    less[j][i] \/ (j < i /\ ~less[i][j])})]
        at == [k \in 1..n |-> CHOOSE i \in 1..n : rank[i] = k - 1]
    IN [k \in 1..n |-> seq[at[k]]]

\* sorted() of numbers
SortInts(seq) ==
    StableSort(seq, [i \in 1..Len(seq) |-> [j \in 1..Len(seq) |-> seq[i] < seq[j]]])

\* the key (round(float(b[1]), 1), round(float(b[0]), 1)), compared as tuples
ReadingOrderLess(a, b) ==
    \/ Round1(a.y0) < Round1(b.y0)
    \/ (Round1(a.y0) = Round1(b.y0) /\ Round1(a.x0) < Round1(b.x0))

\* a sort by the left edge first
LeftFirstLess(a, b) ==
    \/ Round1(a.x0) < Round1(b.x0)
    \/ (Round1(a.x0) = Round1(b.x0) /\ Round1(a.y0) < Round1(b.y0))

sort_blocks_left_first(blocks) ==
    StableSort(blocks, [i \in 1..Len(blocks) |-> [j \in 1..Len(blocks) |->
                           LeftFirstLess(blocks[i], blocks[j])]])

_sort_blocks_reading_order(blocks) ==
    StableSort(blocks, [i \in 1..Len(blocks) |-> [j \in 1..Len(blocks) |->
                           ReadingOrderLess(blocks[i], blocks[j])]])

\* [b for b in blocks if len(b) >= 5 and (b[4] or "").strip()]
NonEmptyBlocks(blocks) ==
    LET HasText(b) == Strip(b.text) # <<>>
    IN SelectSeq(blocks, HasText)

MinBlocks == 12
\* gap_quantile 0.90, in tenths
GapQuantile == 9
\* min_gap_ratio 0.08, in hundredths
MinGapPct == 8
HeaderTopUnits == 90

\* the index of the largest gap, as the claimed detector would take it
LargestIndex(n) == n - 1

\* int(max(0, min(len(gaps_sorted) - 1, round(gap_quantile * (len - 1)))))
QuantileIndex(n) ==
    LET r == RoundHalfEven(GapQuantile * (n - 1), 10)
        m == IF r < n - 1 THEN r ELSE n - 1
    IN IF m > 0 THEN m ELSE 0

\* the midpoint of the first largest gap of x0s: the loop with best_gap
LargestGapMid(x0s) ==
    LET gap(i) == x0s[i + 1] - x0s[i]
        best == CHOOSE i \in 1..(Len(x0s) - 1) :
                    /\ \A j \in 1..(Len(x0s) - 1) : gap(j) <= gap(i)
                    /\ \A j \in 1..(i - 1) : gap(j) < gap(i)
    IN (x0s[best] + x0s[best + 1]) \div 2

_page_two_col_split_x(pg) ==
    LET blocks == NonEmptyBlocks(pg.blocks)
        x0s    == SortInts([i \in 1..Len(blocks) |-> blocks[i].x0])
        all    == [i \in 1..(Len(x0s) - 1) |-> x0s[i + 1] - x0s[i]]
        Pos(g) == g > 0
        gaps   == SelectSeq(all, Pos)
        gaps_sorted == SortInts(gaps)
        largest_gap == gaps_sorted[QuantileIndex(Len(gaps)) + 1]
    IN IF Len(x0s) < MinBlocks THEN <<>>
       ELSE IF gaps = <<>> THEN <<>>
       ELSE IF 100 * largest_gap < MinGapPct * pg.width THEN <<>>
       ELSE <<LargestGapMid(x0s)>>

\* x_center < split_x, with x_center = (x0 + x1) / 2.0
LeftOf(b, split_x) == b.x0 + b.x1 < 2 * split_x

is_two_column_pymupdf(pg) ==
    LET split_x == _page_two_col_split_x(pg)
        blocks  == NonEmptyBlocks(pg.blocks)
    IN IF split_x = <<>> THEN FALSE
       ELSE LET left  == Cardinality({i \in 1..Len(blocks) : LeftOf(blocks[i], split_x[1])})
                right == Cardinality({i \in 1..Len(blocks) : ~LeftOf(blocks[i], split_x[1])})
            IN left > 0 /\ right > 0

\* sep.join(texts)
RECURSIVE Join(_, _)
Join(texts, sep) ==
    IF texts = <<>> THEN <<>>
    ELSE IF Len(texts) = 1 THEN texts[1]
    ELSE texts[1] \o sep \o Join(Tail(texts), sep)

\* sep.join((b[4] or "").strip() for b in blocks if (b[4] or "").strip())
BlockLines(blocks) ==
    LET kept == NonEmptyBlocks(blocks)
    IN Join([i \in 1..Len(kept) |-> Strip(kept[i].text)], <<NL(1)>>)

\* "\n\n".join(t for t in out if t.strip()).strip()
JoinPages(out) ==
    LET HasText(t) == Strip(t) # <<>>
    IN Strip(Join(SelectSeq(out, HasText), <<NL(2)>>))

\* the sorted list of one page in read_pdf_sequential
SequentialLists(pg) == <<_sort_blocks_reading_order(NonEmptyBlocks(pg.blocks))>>

SequentialPageText(pg) == BlockLines(SequentialLists(pg)[1])

read_pdf_sequential(doc) ==
    JoinPages([i \in 1..Len(doc) |-> SequentialPageText(doc[i])])

\* header first, then the right column, then the left one
TwoColumnRightFirst(pg) ==
    LET blocks  == NonEmptyBlocks(pg.blocks)
        split_x == _page_two_col_split_x(pg)
        IsHeader(b) == b.y0 < U(HeaderTopUnits)
        IsLeft(b)   == ~IsHeader(b) /\ LeftOf(b, split_x[1])
        IsRight(b)  == ~IsHeader(b) /\ ~LeftOf(b, split_x[1])
    IN IF blocks = <<>> THEN <<>>
       ELSE IF split_x = <<>> THEN <<_sort_blocks_reading_order(blocks)>>
       ELSE << _sort_blocks_reading_order(SelectSeq(blocks, IsHeader)),
               _sort_blocks_reading_order(SelectSeq(blocks, IsRight)),
               _sort_blocks_reading_order(SelectSeq(blocks, IsLeft)) >>

\* a block whose top is exactly header_top is in no group
TwoColumnDropsBoundary(pg) ==
    LET blocks  == NonEmptyBlocks(pg.blocks)
        split_x == _page_two_col_split_x(pg)
        IsHeader(b) == b.y0 < U(HeaderTopUnits)
        IsBody(b)   == b.y0 > U(HeaderTopUnits)
        IsLeft(b)   == IsBody(b) /\ LeftOf(b, split_x[1])
        IsRight(b)  == IsBody(b) /\ ~LeftOf(b, split_x[1])
    IN IF blocks = <<>> THEN <<>>
       ELSE IF split_x = <<>> THEN <<_sort_blocks_reading_order(blocks)>>
       ELSE << _sort_blocks_reading_order(SelectSeq(blocks, IsHeader)),
               _sort_blocks_reading_order(SelectSeq(blocks, IsLeft)),
               _sort_blocks_reading_order(SelectSeq(blocks, IsRight)) >>

\* the sorted lists of one page in read_pdf_two_column_left_then_right:
\* <<>> for a page without blocks, <<blocks>> for the fallback of a page
\* without a split, <<header, left, right>> otherwise
TwoColumnLists(pg) ==
    LET blocks  == NonEmptyBlocks(pg.blocks)
        split_x == _page_two_col_split_x(pg)
        IsHeader(b) == b.y0 < U(HeaderTopUnits)
        IsLeft(b)   == ~IsHeader(b) /\ LeftOf(b, split_x[1])
        IsRight(b)  == ~IsHeader(b) /\ ~LeftOf(b, split_x[1])
    IN IF blocks = <<>> THEN <<>>
       ELSE IF split_x = <<>> THEN <<_sort_blocks_reading_order(blocks)>>
       ELSE << _sort_blocks_reading_order(SelectSeq(blocks, IsHeader)),
               _sort_blocks_reading_order(SelectSeq(blocks, IsLeft)),
               _sort_blocks_reading_order(SelectSeq(blocks, IsRight)) >>

\* what one page appends to out_pages (nothing for a page without blocks)
TwoColumnPageText(pg) ==
    LET lists == TwoColumnLists(pg)
        HasText(t) == t # <<>>
    IN IF Len(lists) = 0 THEN <<>>
       ELSE IF Len(lists) = 1 THEN BlockLines(lists[1])
       ELSE Strip(Join(SelectSeq([i \in 1..3 |-> Strip(BlockLines(lists[i]))],
                                 HasText),
                       <<NL(2)>>))

read_pdf_two_column_left_then_right(doc) ==
    JoinPages([i \in 1..Len(doc) |-> TwoColumnPageText(doc[i])])

(***************************************************************************)
(* SpecPage: a page is a base layout (columns of blocks, listed column by  *)
(* column from the top) plus a few more blocks, and the column detector    *)
(* and the two reconstructions are applied to it.                          *)
(***************************************************************************)
\* n blocks under each other from y0 = 100, 14 apart, 250 wide, the i-th at
\* x + (i - 1) * step, with the text of t + i letters and a line feed
Col(x, step, n, t) ==
    [i \in 1..n |->
        [x0 |-> x + (i - 1) * step, y0 |-> U(100) + (i - 1) * U(14),
         x1 |-> x + (i - 1) * step + U(250), y1 |-> U(112) + (i - 1) * U(14),
         text |-> <<W(t + i), NL(1)>>, block_no |-> 0]]

\* block_no: the position of the block in the list
Renumber(blocks) == [i \in 1..Len(blocks) |-> [blocks[i] EXCEPT !.block_no = i - 1]]

BaseLayouts ==
    { <<>>,
      Col(U(50), 0, 6, 0) \o Col(U(650), 0, 5, 6),
      Col(U(50), 0, 6, 0) \o Col(U(650), 0, 6, 6),
      Col(0, U(20), 6, 0) \o Col(U(600), U(20), 6, 6),
      Col(U(72), 0, 12, 0),
      Col(U(50), 0, 6, 0) \o Col(U(130), 0, 6, 6),
      Col(U(50), 0, 6, 0) \o Col(U(130) - 2, 0, 6, 6),
      Col(U(50), 0, 4, 0) \o Col(U(350), 0, 4, 4) \o Col(U(650), 0, 4, 8),
      Col(U(50), 0, 4, 0) \o Col(U(60), 0, 3, 4) \o Col(U(70), 0, 2, 7)
          \o Col(U(650), 0, 3, 9),
      Col(0, U(10), 6, 0) \o Col(U(650), 0, 6, 6),
      Col(0, U(100), 6, 0) \o Col(U(900), 0, 6, 6) }

PageWidths == {U(1000), U(600)}

\* a block just above and one at the header threshold; a block of blanks; a
\* block 1/32 lower than the last one and left of it; a block centred on
\* 350; a block with blanks around its text
BlockChoices ==
    { [x0 |-> U(650), y0 |-> U(90) - 1, x1 |-> U(900), y1 |-> U(99),
       text |-> <<W(21), NL(1)>>, block_no |-> 0],
      [x0 |-> U(650), y0 |-> U(90), x1 |-> U(900), y1 |-> U(99),
       text |-> <<W(22), NL(1)>>, block_no |-> 0],
      [x0 |-> U(300), y0 |-> U(200), x1 |-> U(310), y1 |-> U(212),
       text |-> <<S(1), NL(1)>>, block_no |-> 0],
      [x0 |-> U(10), y0 |-> U(400) + 1, x1 |-> U(260), y1 |-> U(412),
       text |-> <<W(24), NL(1)>>, block_no |-> 0],
      [x0 |-> U(100), y0 |-> U(300), x1 |-> U(600), y1 |-> U(312),
       text |-> <<W(25), NL(1)>>, block_no |-> 0],
      [x0 |-> U(72), y0 |-> U(400), x1 |-> U(322), y1 |-> U(412),
       text |-> <<S(2), W(26), S(1), NL(2)>>, block_no |-> 0] }

PInit ==
    /\ \E base \in BaseLayouts, w \in PageWidths :
          page = [width |-> w, blocks |-> Renumber(base)]
    /\ pgExtra = 0
    /\ pgOp = "none"
    /\ pgOut = <<>>
    /\ pgLists = <<>>
    /\ QIdle /\ OIdle /\ LIdle /\ EIdle

PAddBlock ==
    /\ pgExtra < MaxExtra
    /\ \E b \in BlockChoices :
          page' = [page EXCEPT !.blocks = Renumber(Append(@, b))]
    /\ pgExtra' = pgExtra + 1
    /\ pgOp' = "none"
    /\ pgOut' = <<>>
    /\ pgLists' = <<>>
    /\ UNCHANGED <<qVars, oVars, lVars, eVars>>

PSplit ==
    /\ pgOp = "none"
    /\ pgOp' = "_page_two_col_split_x"
    /\ pgOut' = _page_two_col_split_x(page)
    /\ UNCHANGED <<page, pgExtra, pgLists>>
    /\ UNCHANGED <<qVars, oVars, lVars, eVars>>

PIsTwoColumn ==
    /\ pgOp = "none"
    /\ pgOp' = "is_two_column_pymupdf"
    /\ pgOut' = <<is_two_column_pymupdf(page)>>
    /\ UNCHANGED <<page, pgExtra, pgLists>>
    /\ UNCHANGED <<qVars, oVars, lVars, eVars>>

PSequential ==
    /\ pgOp = "none"
    /\ pgOp' = "read_pdf_sequential"
    /\ pgOut' = read_pdf_sequential(<<page>>)
    /\ pgLists' = SequentialLists(page)
    /\ UNCHANGED <<page, pgExtra>>
    /\ UNCHANGED <<qVars, oVars, lVars, eVars>>

PTwoColumn ==
    /\ pgOp = "none"
    /\ pgOp' = "read_pdf_two_column_left_then_right"
    /\ pgOut' = read_pdf_two_column_left_then_right(<<page>>)
    /\ pgLists' = TwoColumnLists(page)
    /\ UNCHANGED <<page, pgExtra>>
    /\ UNCHANGED <<qVars, oVars, lVars, eVars>>

PNext == PAddBlock \/ PSplit \/ PIsTwoColumn \/ PSequential \/ PTwoColumn

SpecPage == PInit /\ [][PNext]_vars

\* the left edges of the fragments frs, the gaps between consecutive
\* distinct left edges as pairs <<a, b>>, the gaps of at least 0.08 of the
\* width, and the largest gaps
LeftEdges(frs) == { frs[i].x0 : i \in 1..Len(frs) }
EdgeGaps(edges) ==
    { g \in edges \X edges :
        g[1] < g[2] /\ ~\E c \in edges : g[1] < c /\ c < g[2] }
WideGaps(gaps, width) == { g \in gaps : 100 * (g[2] - g[1]) >= 8 * width }
LargestGaps(gaps) ==
    LET most == CHOOSE m \in { g[2] - g[1] : g \in gaps } :
                    \A h \in gaps : h[2] - h[1] <= m
    IN { g \in gaps : g[2] - g[1] = most }

\* C6 as stated: with at least 12 fragments the detector returns a split
\* exactly when the largest gap between consecutive sorted x0 values is at
\* least 0.08 of the page width, and the split is the midpoint of that gap;
\* otherwise it returns no split.
C6_LargestGapDecides ==
    pgOp = "_page_two_col_split_x" =>
        LET frs == NonEmptyBlocks(page.blocks)
            gaps == EdgeGaps(LeftEdges(frs))
        IN IF /\ Len(frs) >= 12
              /\ gaps # {}
              /\ LargestGaps(gaps) \cap WideGaps(gaps, page.width) # {}
           THEN /\ pgOut # <<>>
                /\ \E g \in LargestGaps(gaps) : 2 * pgOut[1] = g[1] + g[2]
           ELSE pgOut = <<>>

\* C6, amended: the detector returns a split exactly when the page has at
\* least 12 fragments, at least one positive gap, and the gap at the 0.90
\* quantile of the n positive gaps (the one of rank round(0.9 * (n - 1)) in
\* increasing order) is at least 0.08 of the page width; the split is then
\* the midpoint of the leftmost largest gap.
C6_QuantileGapDecides ==
    pgOp = "_page_two_col_split_x" =>
        LET frs == NonEmptyBlocks(page.blocks)
            gaps == EdgeGaps(LeftEdges(frs))
            n == Cardinality(gaps)
            above == n - RoundHalfEven(9 * (n - 1), 10)
        IN IF /\ Len(frs) >= 12
              /\ n > 0
              /\ Cardinality(WideGaps(gaps, page.width)) >= above
           THEN LET largest == LargestGaps(gaps)
                IN /\ pgOut # <<>>
                   /\ \E g \in largest :
                         /\ 2 * pgOut[1] = g[1] + g[2]
                         /\ \A h \in largest : g[1] <= h[1]
           ELSE pgOut = <<>>

\* a page with six or more positive gaps, a single largest one, for which
\* a split is returned: the quantile gap is not the largest gap there
C6_Witness ==
    /\ pgOp = "_page_two_col_split_x"
    /\ pgOut # <<>>
    /\ LET gaps == EdgeGaps(LeftEdges(NonEmptyBlocks(page.blocks)))
       IN Cardinality(gaps) >= 6 /\ Cardinality(LargestGaps(gaps)) = 1

\* the group of a fragment of a page with the split sx: 1 header (top above
\* 90), 2 left (centre left of the split), 3 right
GroupOf(b, sx) ==
    IF b.y0 < 32 * 90 THEN 1
    ELSE IF b.x0 + b.x1 < 2 * sx THEN 2 ELSE 3

\* a comes before b in (quantized top, left) order, or is level with it
InReadingOrder(a, b) ==
    \/ Round1(a.y0) < Round1(b.y0)
    \/ (Round1(a.y0) = Round1(b.y0) /\ Round1(a.x0) <= Round1(b.x0))

Emitted(lists) == IF Len(lists) = 3 THEN lists[1] \o lists[2] \o lists[3]
                  ELSE IF Len(lists) = 1 THEN lists[1] ELSE <<>>

\* C7: in the Header/Left/Right reconstruction of a page with a split the
\* output lists the header fragments, then the left-column fragments, then
\* the right-column ones, each group in (quantized top, left) order, and
\* its lines are the texts of the fragments in that order.
C7_HeaderLeftRight ==
    pgOp = "read_pdf_two_column_left_then_right" =>
        LET split == _page_two_col_split_x(page)
            frs == NonEmptyBlocks(page.blocks)
            out == Emitted(pgLists)
            grp == [i \in 1..Len(out) |-> GroupOf(out[i], split[1])]
        IN split # <<>> =>
           /\ Len(pgLists) = 3
           /\ Len(out) = Len(frs)
           /\ { out[i].block_no : i \in 1..Len(out) }
                 = { frs[i].block_no : i \in 1..Len(frs) }
           /\ \A i, j \in 1..Len(out) :
                 i < j => /\ grp[i] <= grp[j]
                          /\ grp[i] = grp[j] => InReadingOrder(out[i], out[j])
           /\ StrippedLines(pgOut) = [i \in 1..Len(out) |-> Strip(out[i].text)]

\* a page with a split and all three groups, where a left-column fragment
\* lies lower than a right-column one
C7_Witness ==
    /\ pgOp = "read_pdf_two_column_left_then_right"
    /\ Len(pgLists) = 3
    /\ pgLists[1] # <<>>
    /\ \E i \in 1..Len(pgLists[2]), j \in 1..Len(pgLists[3]) :
          pgLists[2][i].y0 > pgLists[3][j].y0

\* the fragments frs are listed from the top down and, at one top, from
\* the left to the right
InExactOrder(frs) ==
    \A i, j \in 1..Len(frs) :
        i < j => \/ frs[i].y0 < frs[j].y0
                 \/ (frs[i].y0 = frs[j].y0 /\ frs[i].x0 <= frs[j].x0)

\* the fragments frs are listed in the order of the sort key
InKeyOrder(frs) ==
    \A i, j \in 1..Len(frs) : i < j => InReadingOrder(frs[i], frs[j])

TrimmedTexts(frs) == [i \in 1..Len(frs) |-> Strip(frs[i].text)]

\* C8 as stated: for a single-column page whose fragments are supplied from
\* the top down, left to right, the Sequential output is their texts in the
\* supplied order, also when tops differ by less than the tolerance.
C8_RoundTripExactOrder ==
    pgOp = "read_pdf_sequential" =>
        LET frs == NonEmptyBlocks(page.blocks)
        IN (InExactOrder(frs) /\ _page_two_col_split_x(page) = <<>>) =>
              StrippedLines(pgOut) = TrimmedTexts(frs)

\* C8, amended: for a single-column page whose fragments are supplied in
\* the order of the sort key (top rounded to 0.1, then left edge rounded to
\* 0.1), the Sequential output is their trimmed texts joined by line feeds,
\* in the supplied order.
C8_RoundTripKeyOrder ==
    pgOp = "read_pdf_sequential" =>
        LET frs == NonEmptyBlocks(page.blocks)
        IN (InKeyOrder(frs) /\ _page_two_col_split_x(page) = <<>>) =>
              pgOut = Join(TrimmedTexts(frs), <<NL(1)>>)

\* a single-column page of fragments in key order, two of them with tops
\* less than the tolerance apart, after the Sequential reconstruction
C8_Witness ==
    /\ pgOp = "read_pdf_sequential"
    /\ _page_two_col_split_x(page) = <<>>
    /\ LET frs == NonEmptyBlocks(page.blocks)
       IN /\ InKeyOrder(frs)
          /\ \E i, j \in 1..Len(frs) :
                /\ i < j
                /\ frs[i].y0 # frs[j].y0
                /\ Round1(frs[i].y0) = Round1(frs[j].y0)

\* the numbers of the fragments of a list
BlockNos(frs) == { frs[i].block_no : i \in 1..Len(frs) }

\* how often the fragment numbered no is in the list
TimesIn(frs, no) == Cardinality({ i \in 1..Len(frs) : frs[i].block_no = no })

\* C12: after the Sequential and after the Header/Left/Right reconstruction
\* of a page, with a split or without one, every fragment whose text is not
\* blank is in the output exactly once and no blank fragment is in it; the
\* lines of the output are the trimmed texts of the fragments put out, one
\* each; and header, left and right are disjoint and together hold the
\* fragments that are not blank.
C12_NothingLostNothingTwice ==
    pgOp \in {"read_pdf_sequential", "read_pdf_two_column_left_then_right"} =>
        LET frs == page.blocks
            out == Emitted(pgLists)
            kept == { i \in 1..Len(frs) : Strip(frs[i].text) # <<>> }
        IN /\ \A i \in 1..Len(frs) :
                 TimesIn(out, frs[i].block_no) = IF i \in kept THEN 1 ELSE 0
           /\ Len(out) = Cardinality(kept)
           /\ StrippedLines(pgOut) = TrimmedTexts(out)
           /\ Len(pgLists) = (IF kept = {} /\ pgOp # "read_pdf_sequential" THEN 0
                              ELSE IF pgOp = "read_pdf_sequential"
                                      \/ _page_two_col_split_x(page) = <<>>
                                   THEN 1 ELSE 3)
           /\ Len(pgLists) = 3 =>
                 /\ \A g, h \in 1..3 :
                       g # h => BlockNos(pgLists[g]) \cap BlockNos(pgLists[h]) = {}
                 /\ UNION { BlockNos(pgLists[g]) : g \in 1..3 }
                       = { frs[i].block_no : i \in kept }

\* a page with a split and a blank fragment, after the Header/Left/Right
\* reconstruction with all three groups filled
C12_Witness ==
    /\ pgOp = "read_pdf_two_column_left_then_right"
    /\ Len(pgLists) = 3
    /\ \A g \in 1..3 : pgLists[g] # <<>>
    /\ \E i \in 1..Len(page.blocks) : Strip(page.blocks[i].text) = <<>>

(* --------------------- the document-level decision -------------------- *)

\* 0.34, in hundredths
TwoColFractionPct == 34

\* "if ANY page is two-column, treat as two-column"
any_page_two_column(two, total) == two > 0

\* total_pages > 0 and (two_col_pages / total_pages) >= 0.34
document_is_two_column(two, total) ==
    total > 0 /\ 100 * two >= TwoColFractionPct * total

(***************************************************************************)
(* SpecLayout: read_pdf_layout_aware on a PDF of up to MaxPages pages,     *)
(* step by step: fitz.open, the scan of the pages, the decision, the       *)
(* reconstruction page by page, the return, and doc.close() in the         *)
(* finally clause.  fitz.open and page.get_text can raise.                 *)
(***************************************************************************)
\* two tight columns; one column; no text at all; two columns 80 apart,
\* whose blocks are all centred right of the split
PageSamples ==
    { [width |-> U(1000),
       blocks |-> Renumber(Col(U(50), 0, 6, 0) \o Col(U(650), 0, 6, 6))],
      [width |-> U(1000), blocks |-> Renumber(Col(U(72), 0, 12, 0))],
      [width |-> U(1000), blocks |-> <<>>],
      [width |-> U(1000),
       blocks |-> Renumber(Col(U(50), 0, 6, 0) \o Col(U(130), 0, 6, 6))] }

LInit ==
    /\ \E n \in 0..MaxPages : pdf \in [1..n -> PageSamples]
    /\ lpc = "start"
    /\ docOpen = FALSE
    /\ two_col_pages = 0
    /\ total_pages = 0
    /\ mode = "none"
    /\ recon = <<>>
    /\ out_pages = <<>>
    /\ lResult = [kind |-> "none"]
    /\ QIdle /\ OIdle /\ PIdle /\ EIdle

\* doc = fitz.open(pdf_path)
LOpen ==
    /\ lpc = "start"
    /\ docOpen' = TRUE
    /\ lpc' = "scan"
    /\ UNCHANGED <<pdf, two_col_pages, total_pages, mode, recon, out_pages, lResult>>
    /\ UNCHANGED <<qVars, oVars, pVars, eVars>>

\* fitz.open raises: there is no document, and the try is not entered
LOpenRaises ==
    /\ lpc = "start"
    /\ lpc' = "done"
    /\ lResult' = [kind |-> "raise", error |-> "fitz.open"]
    /\ UNCHANGED <<pdf, docOpen, two_col_pages, total_pages, mode, recon, out_pages>>
    /\ UNCHANGED <<qVars, oVars, pVars, eVars>>

\* one turn of "for page in doc": total_pages += 1, and two_col_pages += 1
\* when is_two_column_pymupdf(page)
LScanPage ==
    /\ lpc = "scan"
    /\ total_pages < Len(pdf)
    /\ total_pages' = total_pages + 1
    /\ two_col_pages' = IF is_two_column_pymupdf(pdf[total_pages + 1])
                        THEN two_col_pages + 1 ELSE two_col_pages
    /\ UNCHANGED <<pdf, lpc, docOpen, mode, recon, out_pages, lResult>>
    /\ UNCHANGED <<qVars, oVars, pVars, eVars>>

\* page.get_text raises in the scan or in the reconstruction
LPageRaises ==
    /\ \/ lpc = "scan" /\ total_pages < Len(pdf)
       \/ lpc = "recon" /\ Len(recon) < Len(pdf)
    /\ lpc' = "finally"
    /\ lResult' = [kind |-> "raise", error |-> "page.get_text"]
    /\ UNCHANGED <<pdf, docOpen, two_col_pages, total_pages, mode, recon, out_pages>>
    /\ UNCHANGED <<qVars, oVars, pVars, eVars>>

\* the scan is over: the reconstruction is chosen and called
LDecide ==
    /\ lpc = "scan"
    /\ total_pages = Len(pdf)
    /\ mode' = IF document_is_two_column(two_col_pages, total_pages)
               THEN "read_pdf_two_column_left_then_right"
               ELSE "read_pdf_sequential"
    /\ lpc' = "recon"
    /\ UNCHANGED <<pdf, docOpen, two_col_pages, total_pages, recon, out_pages, lResult>>
    /\ UNCHANGED <<qVars, oVars, pVars, eVars>>

\* one turn of "for page in doc" of the reconstruction called
LReconPage ==
    /\ lpc = "recon"
    /\ Len(recon) < Len(pdf)
    /\ LET pg == pdf[Len(recon) + 1]
       IN /\ recon' = Append(recon, mode)
          /\ out_pages' =
                IF mode = "read_pdf_sequential"
                THEN Append(out_pages, SequentialPageText(pg))
                ELSE IF NonEmptyBlocks(pg.blocks) = <<>> THEN out_pages
                ELSE Append(out_pages, TwoColumnPageText(pg))
    /\ UNCHANGED <<pdf, lpc, docOpen, two_col_pages, total_pages, mode, lResult>>
    /\ UNCHANGED <<qVars, oVars, pVars, eVars>>

\* return "\n\n".join(t for t in out if t.strip()).strip()
LReturn ==
    /\ lpc = "recon"
    /\ Len(recon) = Len(pdf)
    /\ lResult' = [kind |-> "return", text |-> JoinPages(out_pages)]
    /\ lpc' = "finally"
    /\ UNCHANGED <<pdf, docOpen, two_col_pages, total_pages, mode, recon, out_pages>>
    /\ UNCHANGED <<qVars, oVars, pVars, eVars>>

\* the document is closed only on the way to a return
LCloseOnReturn ==
    /\ lpc = "finally"
    /\ docOpen' = (lResult.kind # "return")
    /\ lpc' = "done"
    /\ UNCHANGED <<pdf, two_col_pages, total_pages, mode, recon, out_pages, lResult>>
    /\ UNCHANGED <<qVars, oVars, pVars, eVars>>

\* finally: doc.close()
LClose ==
    /\ lpc = "finally"
    /\ docOpen' = FALSE
    /\ lpc' = "done"
    /\ UNCHANGED <<pdf, two_col_pages, total_pages, mode, recon, out_pages, lResult>>
    /\ UNCHANGED <<qVars, oVars, pVars, eVars>>

LNext ==
    \/ LOpen \/ LOpenRaises \/ LScanPage \/ LPageRaises \/ LDecide
    \/ LReconPage \/ LReturn \/ LClose

SpecLayout == LInit /\ [][LNext]_vars

\* the whole call, when nothing raises
read_pdf_layout_aware(doc) ==
    LET two == Cardinality({i \in 1..Len(doc) : is_two_column_pymupdf(doc[i])})
    IN IF document_is_two_column(two, Len(doc))
       THEN read_pdf_two_column_left_then_right(doc)
       ELSE read_pdf_sequential(doc)

C11_ClosedOnEveryExit ==
    /\ lpc \in {"scan", "recon", "finally"} => docOpen
    /\ lpc = "done" => ~docOpen
    /\ lpc = "done" =>
          \/ lResult.kind = "return" /\ Len(recon) = Len(pdf)
          \/ lResult.kind = "raise"

\* page.get_text has raised in the reconstruction of a two-column document,
\* after one page, and the call is over with the document closed
C11_Witness ==
    /\ lpc = "done"
    /\ lResult.kind = "raise" /\ lResult.error = "page.get_text"
    /\ mode = "read_pdf_two_column_left_then_right"
    /\ Len(recon) = 1 /\ Len(pdf) > 1
    /\ ~docOpen

(* ------------------------- extract_text_from_file --------------------- *)

(***************************************************************************)
(* A DOCX file of the extraction specification holds its paragraphs in     *)
(* groups, in document order: n paragraphs of one kind, which either all   *)
(* hold the same text (same) or all differ from every other paragraph.     *)
(* Its tables have one row of two cells each, and the rows all differ.     *)
(***************************************************************************)
\* p.text of a paragraph of kind k
ParaText(k) ==
    IF k.words = 0 THEN <<S(1)>>
    ELSE IF k.phrase = "Converted from PDF"
         THEN <<W(9), S(1), W(4), S(1), W(3)>>
    ELSE Repeat(<<W(5), S(1)>>, k.words - 1) \o <<W(5)>>

\* " | ".join(row_text) of a row of two cells
RowText == <<W(5), S(1), W(1), S(1), W(5)>>

\* the same file as Document(docx_path) of detect_docx_origin sees it
DocOf(b) ==
    [paras |-> [k \in ParaKinds |->
                   SumSeq([i \in 1..Len(b.groups) |->
                              IF b.groups[i].kind = k THEN b.groups[i].n ELSE 0])],
     tables |-> b.tables, markers |-> b.markers,
     lineBreaks |-> b.lineBreaks, hasMainPart |-> b.hasMainPart]

\* the lines of the paragraphs and of the table rows, without the lines seen
\* before, joined by "\n" and stripped
read_docx_text(b) ==
    LET g == b.groups
        Seen(i) == \E j \in 1..(i - 1) : g[j].same /\ g[j].kind = g[i].kind
        GroupLines(i) ==
            LET t == Strip(ParaText(g[i].kind))
            IN IF t = <<>> THEN <<>>
               ELSE IF g[i].same THEN (IF Seen(i) THEN <<>> ELSE <<t>>)
               ELSE [j \in 1..g[i].n |-> t]
        RECURSIVE ParaLines(_)
        ParaLines(i) == IF i = 0 THEN <<>> ELSE ParaLines(i - 1) \o GroupLines(i)
        out == ParaLines(Len(g)) \o [j \in 1..b.tables |-> RowText]
    IN Strip(Join(out, <<NL(1)>>))

\* Path(file_path).suffix.lower()
suffix_lower(suffix) ==
    CASE suffix = ".PDF" -> ".pdf"
      [] suffix = ".DOCX" -> ".docx"
      [] OTHER -> suffix

\* what the readers raise on a file they cannot read
DocumentError == [type |-> "PackageNotFoundError", msg |-> <<"Package not found">>]
PdfError == [type |-> "FileDataError", msg |-> <<"Failed to open file">>]
TxtError == [type |-> "FileNotFoundError", msg |-> <<"No such file or directory">>]

\* ValueError(f"Unsupported file type: {ext}")
UnsupportedError(e) == [type |-> "ValueError", msg |-> <<"Unsupported file type: ", e>>]

\* the exception is handed on as it is
reraise(e) == e

\* Exception(f"Failed to extract text from file: {e}"), raised in the except
\* clause, so e is its context
wrap(e) ==
    [type |-> "Exception",
     msg |-> <<"Failed to extract text from file: ">> \o e.msg,
     context |-> <<e>>]

\* _looks_bad_text is called for every label
quality_gate_always(label) == TRUE

\* origin == "PDF_CONVERTED_DOCX" and ...: the right operand of "and" is
\* evaluated only then
quality_gate_applies(label) == label = "PDF_CONVERTED_DOCX"

Group(k, n, same) == [kind |-> k, n |-> n, same |-> same]

Kind(words) == CHOOSE k \in ParaKinds : k.words = words

Docx(groups, tables, markers) ==
    [groups |-> groups, tables |-> tables, markers |-> markers,
     lineBreaks |-> 0, hasMainPart |-> TRUE]

\* no paragraph; one long paragraph; 20 paragraphs of 4 words; 20 of 8 words
\* in Times New Roman; 11 blank Times New Roman paragraphs and one of 2
\* words; page breaks and 31 paragraphs of 2 words, all different or all
\* the same; page breaks, 3 tables and 20 paragraphs of 8 words after the
\* converter's line
DocxSamples ==
    { Docx(<<>>, 0, {}),
      Docx(<<Group(Kind(8), 1, FALSE)>>, 1, {}),
      Docx(<<Group(Kind(4), 20, FALSE)>>, 0, {}),
      Docx(<<Group(Kind(8), 20, FALSE)>>, 0, {}),
      Docx(<<Group(Kind(0), 11, TRUE), Group(Kind(2), 1, FALSE)>>, 0, {}),
      Docx(<<Group(Kind(2), 31, FALSE)>>, 0, {"<w:lastRenderedPageBreak/>"}),
      Docx(<<Group(Kind(2), 20, TRUE), Group(Kind(2), 11, TRUE)>>, 0,
           {"<w:lastRenderedPageBreak/>"}),
      Docx(<<Group(Kind(3), 1, FALSE), Group(Kind(8), 20, FALSE)>>, 3,
           {"<w:br w:type=\"page\"/>"}) }

TxtSamples == { <<>>, <<W(4), S(1), W(2), NL(1)>>, <<S(3), NL(2)>> }

Files ==
    { [suffix |-> s, body |-> b] :
        s \in {".pdf", ".PDF"},
        b \in UNION { [1..n -> PageSamples] : n \in 0..MaxFilePages } }
    \cup { [suffix |-> s, body |-> b] :
             s \in {".docx", ".DOCX", ".doc"}, b \in DocxSamples }
    \cup { [suffix |-> s, body |-> b] : s \in {".txt", ".rtf", ""}, b \in TxtSamples }

(***************************************************************************)
(* SpecExtract: extract_text_from_file on one file, step by step: the      *)
(* suffix, the branch of the suffix with its calls, and the except clause. *)
(* Every reader can raise.                                                 *)
(***************************************************************************)
EInit ==
    /\ eFile \in Files
    /\ epc = "start"
    /\ ext = "?"
    /\ origin = "none"
    /\ eText = <<>>
    /\ calls = <<>>
    /\ warned = FALSE
    /\ raised = <<>>
    /\ outcome = [kind |-> "none"]
    /\ QIdle /\ OIdle /\ PIdle /\ LIdle

\* ext = Path(file_path).suffix.lower()
EStart ==
    /\ epc = "start"
    /\ ext' = suffix_lower(eFile.suffix)
    /\ epc' = "try"
    /\ UNCHANGED <<eFile, origin, eText, calls, warned, raised, outcome>>
    /\ UNCHANGED <<qVars, oVars, pVars, lVars>>

\* if ext == ".pdf": return read_pdf_layout_aware(file_path)
EPdf ==
    /\ epc = "try" /\ ext = ".pdf"
    /\ calls' = Append(calls, "read_pdf_layout_aware")
    /\ eText' = <<read_pdf_layout_aware(eFile.body)>>
    /\ outcome' = [kind |-> "return", text |-> eText'[1],
                   by |-> "read_pdf_layout_aware"]
    /\ epc' = "done"
    /\ UNCHANGED <<eFile, ext, origin, warned, raised>>
    /\ UNCHANGED <<qVars, oVars, pVars, lVars>>

EPdfRaises ==
    /\ epc = "try" /\ ext = ".pdf"
    /\ calls' = Append(calls, "read_pdf_layout_aware")
    /\ raised' = <<PdfError>>
    /\ epc' = "except"
    /\ UNCHANGED <<eFile, ext, origin, eText, warned, outcome>>
    /\ UNCHANGED <<qVars, oVars, pVars, lVars>>

\* if ext == ".docx": origin = detect_docx_origin(file_path)
EDetect ==
    /\ epc = "try" /\ ext = ".docx"
    /\ calls' = Append(calls, "detect_docx_origin")
    /\ origin' = detect_docx_origin(DocOf(eFile.body))
    /\ epc' = "read"
    /\ UNCHANGED <<eFile, ext, eText, warned, raised, outcome>>
    /\ UNCHANGED <<qVars, oVars, pVars, lVars>>

EDetectRaises ==
    /\ epc = "try" /\ ext = ".docx"
    /\ calls' = Append(calls, "detect_docx_origin")
    /\ raised' = <<DocumentError>>
    /\ epc' = "except"
    /\ UNCHANGED <<eFile, ext, origin, eText, warned, outcome>>
    /\ UNCHANGED <<qVars, oVars, pVars, lVars>>

\* text = read_docx_text(file_path)
ERead ==
    /\ epc = "read"
    /\ calls' = Append(calls, "read_docx_text")
    /\ eText' = <<read_docx_text(eFile.body)>>
    /\ epc' = "gate"
    /\ UNCHANGED <<eFile, ext, origin, warned, raised, outcome>>
    /\ UNCHANGED <<qVars, oVars, pVars, lVars>>

EReadRaises ==
    /\ epc = "read"
    /\ calls' = Append(calls, "read_docx_text")
    /\ raised' = <<DocumentError>>
    /\ epc' = "except"
    /\ UNCHANGED <<eFile, ext, origin, eText, warned, outcome>>
    /\ UNCHANGED <<qVars, oVars, pVars, lVars>>

\* a conversion-derived label has the text made by the layout-aware path
EGateRender ==
    /\ epc = "gate"
    /\ calls' = IF origin = "ORIGINAL_DOCX" THEN calls
                ELSE Append(calls, "read_pdf_layout_aware")
    /\ outcome' = [kind |-> "return", text |-> eText[1],
                   by |-> IF origin = "ORIGINAL_DOCX" THEN "read_docx_text"
                          ELSE "read_pdf_layout_aware"]
    /\ epc' = "done"
    /\ UNCHANGED <<eFile, ext, origin, eText, warned, raised>>
    /\ UNCHANGED <<qVars, oVars, pVars, lVars>>

\* a text that looks bad is an error
EGateFatal ==
    /\ epc = "gate"
    /\ calls' = Append(calls, "_looks_bad_text")
    /\ IF _looks_bad_text(eText[1])
       THEN /\ raised' = <<[type |-> "ValueError", msg |-> <<"low quality">>]>>
            /\ epc' = "except"
            /\ UNCHANGED outcome
       ELSE /\ outcome' = [kind |-> "return", text |-> eText[1],
                           by |-> "read_docx_text"]
            /\ epc' = "done"
            /\ UNCHANGED raised
    /\ UNCHANGED <<eFile, ext, origin, eText, warned>>
    /\ UNCHANGED <<qVars, oVars, pVars, lVars>>

\* if origin == "PDF_CONVERTED_DOCX" and _looks_bad_text(text):
\*     logger.warning(...)
\* return text
EGate ==
    /\ epc = "gate"
    /\ calls' = IF quality_gate_applies(origin)
                THEN Append(calls, "_looks_bad_text") ELSE calls
    /\ warned' = (quality_gate_applies(origin) /\ _looks_bad_text(eText[1]))
    /\ outcome' = [kind |-> "return", text |-> eText[1], by |-> "read_docx_text"]
    /\ epc' = "done"
    /\ UNCHANGED <<eFile, ext, origin, eText, raised>>
    /\ UNCHANGED <<qVars, oVars, pVars, lVars>>

\* if ext == ".txt": with open(...) as f: return f.read()
ETxt ==
    /\ epc = "try" /\ ext = ".txt"
    /\ calls' = Append(calls, "open")
    /\ eText' = <<eFile.body>>
    /\ outcome' = [kind |-> "return", text |-> eFile.body, by |-> "open"]
    /\ epc' = "done"
    /\ UNCHANGED <<eFile, ext, origin, warned, raised>>
    /\ UNCHANGED <<qVars, oVars, pVars, lVars>>

ETxtRaises ==
    /\ epc = "try" /\ ext = ".txt"
    /\ calls' = Append(calls, "open")
    /\ raised' = <<TxtError>>
    /\ epc' = "except"
    /\ UNCHANGED <<eFile, ext, origin, eText, warned, outcome>>
    /\ UNCHANGED <<qVars, oVars, pVars, lVars>>

\* raise ValueError(f"Unsupported file type: {ext}")
EUnsupported ==
    /\ epc = "try" /\ ext \notin {".pdf", ".docx", ".txt"}
    /\ raised' = <<UnsupportedError(ext)>>
    /\ epc' = "except"
    /\ UNCHANGED <<eFile, ext, origin, eText, calls, warned, outcome>>
    /\ UNCHANGED <<qVars, oVars, pVars, lVars>>

\* except Exception as e: raise Exception(...)
EExcept ==
    /\ epc = "except"
    /\ outcome' = [kind |-> "raise", error |-> wrap(raised[1])]
    /\ epc' = "done"
    /\ UNCHANGED <<eFile, ext, origin, eText, calls, warned, raised>>
    /\ UNCHANGED <<qVars, oVars, pVars, lVars>>

ENext ==
    \/ EStart \/ EPdf \/ EPdfRaises \/ EDetect \/ EDetectRaises
    \/ ERead \/ EReadRaises \/ EGate \/ ETxt \/ ETxtRaises
    \/ EUnsupported \/ EExcept

SpecExtract == EInit /\ [][ENext]_vars

\* the readers that make a text, in the order of the calls
TierCalls ==
    SelectSeq(calls, LAMBDA c : c \in {"read_docx_text", "read_pdf_layout_aware"})

GateCalls == SelectSeq(calls, LAMBDA c : c = "_looks_bad_text")

ConversionDerived == {"PDF_CONVERTED_DOCX", "DOC_TO_DOCX"}

\* C1 as stated: for a .docx or .doc input the classifier runs first, and
\* under a conversion-derived label the returned text is made by the
\* layout-aware extraction, not by the DOCX reader.
C1_ConvertedUsesLayoutPath ==
    epc = "done" /\ ext \in {".docx", ".doc"} =>
        /\ calls # <<>> /\ calls[1] = "detect_docx_origin"
        /\ outcome.kind = "return" /\ origin \in ConversionDerived =>
              outcome.by = "read_pdf_layout_aware"

\* C1: for a .docx input the classifier runs first and the DOCX reader
\* second, and under every label the returned text is the DOCX reader's text
\* of the file, the layout-aware extraction is not called; for a .doc input
\* nothing is called and the call raises.
C1_DocxReaderUnderEveryLabel ==
    /\ epc = "done" /\ ext = ".docx" =>
          /\ calls[1] = "detect_docx_origin"
          /\ outcome.kind = "return" =>
                /\ calls[2] = "read_docx_text"
                /\ TierCalls = <<"read_docx_text">>
                /\ outcome.by = "read_docx_text"
                /\ outcome.text = read_docx_text(eFile.body)
    /\ epc = "done" /\ ext = ".doc" =>
          calls = <<>> /\ origin = "none" /\ outcome.kind = "raise"

\* a DOCX labelled DOC_TO_DOCX has come back with the DOCX reader's text
C1_Witness ==
    /\ epc = "done" /\ ext = ".docx"
    /\ origin = "DOC_TO_DOCX"
    /\ outcome.kind = "return" /\ outcome.by = "read_docx_text"
    /\ ~_looks_bad_text(outcome.text)

\* C2 as stated: for a DOCX labelled ORIGINAL the gate is applied to every
\* candidate, and the chain goes on to the next tier, up to three, when a
\* candidate fails the gate.
C2_FallbackChain ==
    epc = "done" /\ origin = "ORIGINAL_DOCX" /\ outcome.kind = "return" =>
        /\ Len(TierCalls) \in 1..3
        /\ Len(GateCalls) = Len(TierCalls)
        /\ _looks_bad_text(outcome.text) => Len(TierCalls) = 3

\* C2: for a DOCX labelled ORIGINAL the DOCX reader is the only reader
\* called, once; the gate is not applied to its text, and that text is
\* returned without a warning, whether it looks bad or not.
C2_OriginalSingleReader ==
    epc = "done" /\ origin = "ORIGINAL_DOCX" /\ outcome.kind = "return" =>
        /\ calls = <<"detect_docx_origin", "read_docx_text">>
        /\ outcome.text = eText[1]
        /\ ~warned

\* a DOCX labelled ORIGINAL has come back with a text that looks bad
C2_Witness ==
    /\ epc = "done" /\ origin = "ORIGINAL_DOCX"
    /\ outcome.kind = "return"
    /\ _looks_bad_text(outcome.text)
    /\ eFile.body.groups # <<>>

\* C3: a call ends with a returned text or with a raised error, never both;
\* an extension other than .pdf, .docx and .txt ends with the error; and
\* what is raised inside is never handed on raw: the caller gets an
\* Exception whose message is the prefix and the message of the cause and
\* whose context is the cause.
C3_ReturnOrWrappedError ==
    /\ epc = "done" => outcome.kind \in {"return", "raise"}
    /\ epc # "done" => outcome.kind = "none"
    /\ outcome.kind = "return" =>
          raised = <<>> /\ eText # <<>> /\ outcome.text = eText[1]
    /\ outcome.kind = "raise" =>
          /\ raised # <<>>
          /\ outcome.error.type = "Exception"
          /\ outcome.error.msg =
                <<"Failed to extract text from file: ">> \o raised[1].msg
          /\ outcome.error.context = raised
    /\ epc = "done" /\ ext \notin {".pdf", ".docx", ".txt"} =>
          /\ outcome.kind = "raise"
          /\ raised[1].type = "ValueError"
          /\ raised[1].msg = <<"Unsupported file type: ", ext>>
    /\ raised # <<>> => epc \in {"except", "done"}

\* an .rtf file has ended with the wrapped ValueError
C3_Witness ==
    /\ epc = "done" /\ ext = ".rtf"
    /\ outcome.kind = "raise"
    /\ outcome.error.context[1].type = "ValueError"

ReaderErrors == {DocumentError, PdfError, TxtError}

\* C4: once a reader has made a text and no reader raised, the call returns
\* that text, under every label and whether the text looks bad or not; the
\* except clause is never entered with a text, and a warning is all a bad
\* text brings about.
C4_BadTextStillReturned ==
    /\ epc = "done" /\ eText # <<>>
          /\ (raised = <<>> \/ raised[1] \notin ReaderErrors) =>
          outcome.kind = "return" /\ outcome.text = eText[1]
    /\ epc = "except" => eText = <<>>
    /\ warned => /\ outcome.kind = "return"
                 /\ origin = "PDF_CONVERTED_DOCX"
                 /\ _looks_bad_text(outcome.text)

\* a DOCX labelled PDF_CONVERTED_DOCX has come back with a text that looks
\* bad, and a warning
C4_Witness ==
    /\ epc = "done" /\ warned
    /\ origin = "PDF_CONVERTED_DOCX"
    /\ outcome.kind = "return"
    /\ _looks_bad_text(outcome.text)

=============================================================================
